---- MODULE Spec2Model ----
(***************************************************************************)
(* Mining and chain-linkage engine of the miner node (src/miner.go):       *)
(* the transaction pool, block assembly in mineBlock, the proof-of-work    *)
(* search, and the goroutine that commits a mined block as the new tip.    *)
(*                                                                         *)
(* Go strings are modelled as sequences of one-character strings, so that  *)
(* fmt.Sprintf is modelled by the characters it produces.                  *)
(***************************************************************************)
EXTENDS Integers, Sequences, FiniteSets, TLC

(* ------------------------------ bounds -------------------------------- *)

\* number of requests handleReceive accepts (each adds one transaction and
\* starts one mineBlock goroutine)
MaxAdds == 3

\* requests accepted in a burst, when few mineBlock goroutines are scheduled
MaxBurst == 6

\* largest nonce the proof-of-work search is followed to
MaxNonce == 40

\* largest difficulty the proof-of-work search is checked with on its own
MaxDifficulty == 2

(* ------------------------- program constants -------------------------- *)

\* the difficulty handleReceive passes to mineBlock: the literal 4 against
\* a digest of 64 hex characters, scaled here to 1 against the digest of 2
\* hex characters of Sum256Hex
Difficulty == 1

\* len(transactionPool) >= 3, transactionPool[:3], transactionPool[3:]
BatchSize == 3

\* var previousBlockHash string = "-1", var previousBlockCID string = "-1"
Genesis == <<"-", "1">>

(* ------------------------------ strings ------------------------------- *)

HexDigits == <<"0", "1", "2", "3", "4", "5", "6", "7", "8", "9",
               "a", "b", "c", "d", "e", "f">>

\* the byte value of each character that occurs in a digest input
Ascii ==
    ("0" :> 48) @@ ("1" :> 49) @@ ("2" :> 50) @@ ("3" :> 51) @@ ("4" :> 52) @@
    ("5" :> 53) @@ ("6" :> 54) @@ ("7" :> 55) @@ ("8" :> 56) @@ ("9" :> 57) @@
    ("a" :> 97) @@ ("b" :> 98) @@ ("c" :> 99) @@ ("d" :> 100) @@ ("e" :> 101) @@
    ("f" :> 102) @@ ("x" :> 120) @@ ("y" :> 121) @@ ("-" :> 45) @@ (" " :> 32) @@
    ("[" :> 91) @@ ("]" :> 93) @@ ("{" :> 123) @@ ("}" :> 125)

RECURSIVE FormatInt(_)
\* fmt's %d of a non-negative int: its decimal digits
FormatInt(n) ==
    IF n < 10 THEN <<HexDigits[n + 1]>>
    ELSE FormatInt(n \div 10) \o <<HexDigits[(n % 10) + 1]>>

\* fmt's %s of a Transaction struct: {ID Data}
FormatTransaction(t) == <<"{">> \o t.ID \o <<" ">> \o t.Data \o <<"}">>

RECURSIVE JoinTransactions(_)
JoinTransactions(ts) ==
    IF ts = <<>> THEN <<>>
    ELSE IF Len(ts) = 1 THEN FormatTransaction(ts[1])
    ELSE FormatTransaction(ts[1]) \o <<" ">> \o JoinTransactions(Tail(ts))

\* fmt's %s of a []Transaction: [{ID Data} {ID Data} ...]
FormatTransactions(ts) == <<"[">> \o JoinTransactions(ts) \o <<"]">>

\* strings.Repeat("0", n)
Repeat0(n) == [i \in 1..n |-> "0"]

\* strings.HasPrefix(s, prefix)
HasPrefix(s, prefix) ==
    /\ Len(s) >= Len(prefix)
    /\ SubSeq(s, 1, Len(prefix)) = prefix

(* ------------------------------ digest -------------------------------- *)

RECURSIVE Mix(_, _, _)
Mix(h, s, i) ==
    IF i > Len(s) THEN h
    ELSE Mix((h * 131 + Ascii[s[i]]) % 65521, s, i + 1)

\* sha256.Sum256 printed with %x, narrowed to one byte: a deterministic
\* function of the input bytes, printed as two lower-case hex characters
Sum256Hex(data) ==
    LET h == Mix(7, data, 1) % 256
    IN  <<HexDigits[(h \div 16) + 1], HexDigits[(h % 16) + 1]>>

\* blockData of generateHash: Sprintf("%s%d%d%s", PrevHash, BlockNumber,
\* nonce, Transactions)
BlockData(block, nonce) ==
    block.PrevHash \o FormatInt(block.BlockNumber) \o FormatInt(nonce)
        \o FormatTransactions(block.Transactions)

generateHash(block, nonce) == Sum256Hex(BlockData(block, nonce))

validProof(hash, difficulty) == HasPrefix(hash, Repeat0(difficulty))

RECURSIVE SearchFrom(_, _, _)
SearchFrom(block, difficulty, nonce) ==
    IF nonce > MaxNonce THEN nonce
    ELSE IF validProof(generateHash(block, nonce), difficulty) THEN nonce
    ELSE SearchFrom(block, difficulty, nonce + 1)

\* the nonce proofOfWork returns; MaxNonce + 1 stands for a search that is
\* still running when the bound is reached
proofOfWork(block, difficulty) == SearchFrom(block, difficulty, 0)

(* ------------------------------- state -------------------------------- *)

VARIABLES
    transactionPool,    \* var transactionPool []Transaction
    mutex,              \* var mutex sync.Mutex: <<"free", 0>> or its holder
    currentBlock,       \* var currentBlock Block
    previousBlockCID,   \* var previousBlockCID string
    previousBlockHash,  \* var previousBlockHash string
    crashed,            \* a goroutine panicked: the process has exited
    minerOf,            \* per request: the miner argument of mineBlock
    mpc,                \* per request: position of its mineBlock goroutine
    gpc,                \* per request: position of the mining goroutine
    block,              \* per request: the block variable of mineBlock
    upl,                \* per request: the uploadBlockToIPFS goroutine
    bc,                 \* per request: go broadcastBlock(block) was reached
    added,              \* history: transactions in the order they were added
    taken,              \* history: the batches in the order they were taken
    removed,            \* history: number of transactions removed so far
    pw,                 \* a proofOfWork call followed one iteration at a time
    hr                  \* a handleReceive call followed one check at a time

vars == <<transactionPool, mutex, currentBlock, previousBlockCID,
          previousBlockHash, crashed, minerOf, mpc, gpc, block, upl, bc,
          added, taken, removed, pw, hr>>

coreVars == <<transactionPool, mutex, currentBlock, previousBlockCID,
              previousBlockHash, crashed, minerOf, mpc, gpc, block, upl, bc,
              added, taken, removed>>

\* one entry per request the handler can accept in any specification
Requests == 1..(IF MaxBurst > MaxAdds THEN MaxBurst ELSE MaxAdds)

\* r.RemoteAddr up to the first ':'
ClientIPs == {<<"a">>, <<"b">>}

\* the two peers send their requests in turn
Sender(k) == IF k % 2 = 1 THEN <<"a">> ELSE <<"b">>

\* outputs of executePythonFile
Outputs == {<<"x">>}

Free == <<"free", 0>>

\* the zero value of Block
ZeroBlock ==
    [PrevHash |-> <<>>, Transactions |-> <<>>, Nonce |-> 0, Hash |-> <<>>,
     PrevCID |-> <<>>, BlockNumber |-> 0, Timestamp |-> 0, Creator |-> <<>>,
     Difficulty |-> 0]

PowIdle ==
    [pc |-> "idle", block |-> ZeroBlock, difficulty |-> 0, nonce |-> 0,
     hash |-> <<>>, tried |-> 0]

CoreInit ==
    /\ transactionPool = <<>>
    /\ mutex = Free
    /\ currentBlock = ZeroBlock
    /\ previousBlockCID = Genesis
    /\ previousBlockHash = Genesis
    /\ crashed = FALSE
    /\ minerOf = [k \in Requests |-> <<>>]
    /\ mpc = [k \in Requests |-> "idle"]
    /\ gpc = [k \in Requests |-> "none"]
    /\ block = [k \in Requests |-> ZeroBlock]
    /\ upl = [k \in Requests |-> "none"]
    /\ bc = [k \in Requests |-> "none"]
    /\ added = <<>>
    /\ taken = <<>>
    /\ removed = 0

\* no request is being handled
HrIdle ==
    [pc |-> "idle", status |-> 0, method |-> "", body |-> <<>>,
     clientIP |-> <<>>, result |-> <<>>, fails |-> "none"]

Init == CoreInit /\ pw = PowIdle /\ hr = HrIdle

(* ----------------------------- operations ----------------------------- *)

\* addTransaction: append under the mutex
addTransaction(pool, transaction) == Append(pool, transaction)

\* an addTransaction that appends without taking the mutex
AcceptRequestUnlocked(clientIP, result) ==
    LET k == Len(added) + 1
        transaction == [ID |-> clientIP, Data |-> result]
    IN  /\ ~crashed
        /\ clientIP = Sender(k)
        /\ transactionPool' = addTransaction(transactionPool, transaction)
        /\ added' = Append(added, transaction)
        /\ mpc' = [mpc EXCEPT ![k] = "ready"]
        /\ minerOf' = [minerOf EXCEPT ![k] = clientIP]
        /\ UNCHANGED <<mutex, currentBlock, previousBlockCID,
                       previousBlockHash, crashed, gpc, block, upl, bc,
                       taken, removed>>

\* the end of handleReceive: addTransaction(Transaction{clientIP, result})
\* (lock, append, unlock) and then go mineBlock(clientIP, 4)
AcceptRequest(clientIP, result) ==
    LET k == Len(added) + 1
        transaction == [ID |-> clientIP, Data |-> result]
    IN  /\ ~crashed
        /\ clientIP = Sender(k)
        /\ mutex = Free
        /\ transactionPool' = addTransaction(transactionPool, transaction)
        /\ added' = Append(added, transaction)
        /\ mpc' = [mpc EXCEPT ![k] = "ready"]
        /\ minerOf' = [minerOf EXCEPT ![k] = clientIP]
        /\ UNCHANGED <<mutex, currentBlock, previousBlockCID,
                       previousBlockHash, crashed, gpc, block, upl, bc,
                       taken, removed>>

\* handleReceive on a request that passes every check
HandleReceive(clientIP, result) ==
    /\ Len(added) < MaxAdds
    /\ AcceptRequest(clientIP, result)
    /\ UNCHANGED <<pw, hr>>

\* time.Now().Unix(): the requests of a run arrive within one second
Now == 0

\* the guard of mineBlock: len(transactionPool) >= 3
BatchAvailable(pool) == Len(pool) >= BatchSize

\* a block literal that takes one transaction too few
NewBlockShort(miner, difficulty, timestamp) ==
    [PrevHash |-> previousBlockHash,
     PrevCID |-> previousBlockCID,
     BlockNumber |-> currentBlock.BlockNumber + 1,
     Transactions |-> SubSeq(transactionPool, 1, BatchSize - 1),
     Timestamp |-> timestamp,
     Creator |-> miner,
     Difficulty |-> difficulty,
     Nonce |-> 0,
     Hash |-> <<>>]

\* a block literal that numbers the block from a count of the blocks
\* assembled so far instead of from the tip
NewBlockCounted(miner, difficulty, timestamp) ==
    [PrevHash |-> previousBlockHash,
     PrevCID |-> previousBlockCID,
     BlockNumber |-> Len(taken) \div BatchSize + 1,
     Transactions |-> SubSeq(transactionPool, 1, BatchSize),
     Timestamp |-> timestamp,
     Creator |-> miner,
     Difficulty |-> difficulty,
     Nonce |-> 0,
     Hash |-> <<>>]

\* the block literal of mineBlock
NewBlock(miner, difficulty, timestamp) ==
    [PrevHash |-> previousBlockHash,
     PrevCID |-> previousBlockCID,
     BlockNumber |-> currentBlock.BlockNumber + 1,
     Transactions |-> SubSeq(transactionPool, 1, BatchSize),
     Timestamp |-> timestamp,
     Creator |-> miner,
     Difficulty |-> difficulty,
     Nonce |-> 0,
     Hash |-> <<>>]

\* mineBlock with a batch in the pool: lock, assemble the block, start the
\* mining goroutine; the deferred unlock is MineReturn
MineAssemble(k) ==
    /\ ~crashed
    /\ mpc[k] = "ready"
    /\ mutex = Free
    /\ BatchAvailable(transactionPool)
    /\ block' = [block EXCEPT ![k] =
                    NewBlock(minerOf[k], Difficulty, Now)]
    /\ mutex' = <<"mine", k>>
    /\ mpc' = [mpc EXCEPT ![k] = "held"]
    /\ gpc' = [gpc EXCEPT ![k] = "pow"]
    /\ taken' = taken \o SubSeq(transactionPool, 1, BatchSize)
    /\ UNCHANGED <<transactionPool, currentBlock, previousBlockCID,
                   previousBlockHash, crashed, minerOf, upl, bc, added,
                   removed, pw, hr>>

\* a mineBlock that empties the pool when it finds no batch
MineSkipClears(k) ==
    /\ ~crashed
    /\ mpc[k] = "ready"
    /\ mutex = Free
    /\ ~BatchAvailable(transactionPool)
    /\ mutex' = <<"mine", k>>
    /\ mpc' = [mpc EXCEPT ![k] = "held"]
    /\ transactionPool' = <<>>
    /\ UNCHANGED <<minerOf, currentBlock, previousBlockCID,
                   previousBlockHash, crashed, gpc, block, upl, bc,
                   added, taken, removed, pw, hr>>

\* mineBlock without a batch in the pool: lock, nothing to do
MineSkip(k) ==
    /\ ~crashed
    /\ mpc[k] = "ready"
    /\ mutex = Free
    /\ ~BatchAvailable(transactionPool)
    /\ mutex' = <<"mine", k>>
    /\ mpc' = [mpc EXCEPT ![k] = "held"]
    /\ UNCHANGED <<minerOf, transactionPool, currentBlock, previousBlockCID,
                   previousBlockHash, crashed, gpc, block, upl, bc,
                   added, taken, removed, pw, hr>>

\* a mineBlock that returns without unlocking
MineReturnKeepsLock(k) ==
    /\ ~crashed
    /\ mpc[k] = "held"
    /\ mutex = <<"mine", k>>
    /\ mpc' = [mpc EXCEPT ![k] = "returned"]
    /\ UNCHANGED <<transactionPool, mutex, minerOf, currentBlock,
                   previousBlockCID, previousBlockHash, crashed, gpc, block,
                   upl, bc, added, taken, removed, pw, hr>>

\* defer mutex.Unlock() of mineBlock
MineReturn(k) ==
    /\ ~crashed
    /\ mpc[k] = "held"
    /\ mutex' = Free
    /\ mpc' = [mpc EXCEPT ![k] = "returned"]
    /\ UNCHANGED <<minerOf, transactionPool, currentBlock, previousBlockCID,
                   previousBlockHash, crashed, gpc, block, upl, bc,
                   added, taken, removed, pw, hr>>

\* a goroutine that announces its block as soon as it is mined
GoProofOfWorkAnnounces(k) ==
    /\ ~crashed
    /\ gpc[k] = "pow"
    /\ \E nonce \in {proofOfWork(block[k], block[k].Difficulty)} :
        /\ nonce <= MaxNonce
        /\ block' = [block EXCEPT ![k].Nonce = nonce,
                                  ![k].Hash = generateHash(block[k], nonce)]
        /\ upl' = [upl EXCEPT ![k] = "pending"]
        /\ bc' = [bc EXCEPT ![k] = "called"]
        /\ gpc' = [gpc EXCEPT ![k] = "mined"]
        /\ UNCHANGED <<minerOf, transactionPool, mutex, currentBlock,
                       previousBlockCID, previousBlockHash, crashed,
                       mpc, added, taken, removed, pw, hr>>

\* a search goroutine that stores the digest at nonce 0 as the hash
GoProofOfWorkStale(k) ==
    /\ ~crashed
    /\ gpc[k] = "pow"
    /\ \E nonce \in {proofOfWork(block[k], block[k].Difficulty)} :
        /\ nonce <= MaxNonce
        /\ block' = [block EXCEPT ![k].Nonce = nonce,
                                  ![k].Hash = generateHash(block[k], 0)]
        /\ upl' = [upl EXCEPT ![k] = "pending"]
        /\ gpc' = [gpc EXCEPT ![k] = "mined"]
        /\ UNCHANGED <<minerOf, transactionPool, mutex, currentBlock,
                       previousBlockCID, previousBlockHash, crashed,
                       mpc, bc, added, taken, removed, pw, hr>>

\* the mining goroutine up to its first lock: the search, block.Nonce,
\* block.Hash, and go uploadBlockToIPFS(block)
GoProofOfWork(k) ==
    /\ ~crashed
    /\ gpc[k] = "pow"
    /\ \E nonce \in {proofOfWork(block[k], block[k].Difficulty)} :
        /\ nonce <= MaxNonce
        /\ block' = [block EXCEPT ![k].Nonce = nonce,
                                  ![k].Hash = generateHash(block[k], nonce)]
        /\ upl' = [upl EXCEPT ![k] = "pending"]
        /\ gpc' = [gpc EXCEPT ![k] = "mined"]
        /\ UNCHANGED <<minerOf, transactionPool, mutex, currentBlock,
                       previousBlockCID, previousBlockHash, crashed,
                       mpc, bc, added, taken, removed, pw, hr>>

\* the condition under which the mining goroutine writes the tip once it
\* holds the mutex: the code writes it unconditionally
CommitAllowed(k) == TRUE

\* the value the commit assigns to previousBlockCID
CommittedCID(b) == b.PrevCID

\* a commit that stores the hash of the predecessor as the tip hash
GoCommitStale(k) ==
    /\ ~crashed
    /\ gpc[k] = "mined"
    /\ mutex = Free
    /\ CommitAllowed(k)
    /\ previousBlockHash' = block[k].PrevHash
    /\ previousBlockCID' = CommittedCID(block[k])
    /\ currentBlock' = block[k]
    /\ bc' = [bc EXCEPT ![k] = "called"]
    /\ gpc' = [gpc EXCEPT ![k] = "committed"]
    /\ UNCHANGED <<minerOf, transactionPool, mutex, crashed, mpc, block, upl, added,
                   taken, removed, pw, hr>>

\* the first critical section of the mining goroutine (lock, the three
\* assignments, unlock), then go broadcastBlock(block)
GoCommit(k) ==
    /\ ~crashed
    /\ gpc[k] = "mined"
    /\ mutex = Free
    /\ CommitAllowed(k)
    /\ previousBlockHash' = block[k].Hash
    /\ previousBlockCID' = CommittedCID(block[k])
    /\ currentBlock' = block[k]
    /\ bc' = [bc EXCEPT ![k] = "called"]
    /\ gpc' = [gpc EXCEPT ![k] = "committed"]
    /\ UNCHANGED <<minerOf, transactionPool, mutex, crashed, mpc, block, upl, added,
                   taken, removed, pw, hr>>

\* transactionPool[3:]
Shrink(pool) == SubSeq(pool, BatchSize + 1, Len(pool))

\* the second critical section (lock, transactionPool = transactionPool[3:],
\* unlock): the goroutine ends
GoShrink(k) ==
    /\ ~crashed
    /\ gpc[k] = "committed"
    /\ mutex = Free
    /\ Len(transactionPool) >= BatchSize
    /\ transactionPool' = Shrink(transactionPool)
    /\ removed' = removed + BatchSize
    /\ gpc' = [gpc EXCEPT ![k] = "done"]
    /\ UNCHANGED <<minerOf, mutex, currentBlock, previousBlockCID, previousBlockHash,
                   crashed, mpc, block, upl, bc, added, taken, pw, hr>>

\* transactionPool[3:] of a pool shorter than 3: slice bounds out of range,
\* the panic ends the process with the mutex held
GoShrinkPanic(k) ==
    /\ ~crashed
    /\ gpc[k] = "committed"
    /\ mutex = Free
    /\ Len(transactionPool) < BatchSize
    /\ mutex' = <<"go", k>>
    /\ crashed' = TRUE
    /\ gpc' = [gpc EXCEPT ![k] = "panic"]
    /\ UNCHANGED <<minerOf, transactionPool, currentBlock, previousBlockCID,
                   previousBlockHash, mpc, block, upl, bc, added, taken,
                   removed, pw, hr>>

\* the goroutine running uploadBlockToIPFS(block) returns
UploadBlockToIPFS(k) ==
    /\ ~crashed
    /\ upl[k] = "pending"
    /\ upl' = [upl EXCEPT ![k] = "done"]
    /\ UNCHANGED <<minerOf, transactionPool, mutex, currentBlock, previousBlockCID,
                   previousBlockHash, crashed, mpc, gpc, block, bc,
                   added, taken, removed, pw, hr>>

Next ==
    \/ \E clientIP \in ClientIPs, result \in Outputs :
          HandleReceive(clientIP, result)
    \/ \E k \in Requests : MineAssemble(k)
    \/ \E k \in Requests : MineSkip(k)
    \/ \E k \in Requests : MineReturn(k)
    \/ \E k \in Requests : GoProofOfWork(k)
    \/ \E k \in Requests : GoCommit(k)
    \/ \E k \in Requests : GoShrink(k)
    \/ \E k \in Requests : GoShrinkPanic(k)
    \/ \E k \in Requests : UploadBlockToIPFS(k)

Spec == Init /\ [][Next]_vars

(* ------------------- proofOfWork, one iteration at a time -------------- *)

Transactions == {[ID |-> ip, Data |-> out] : ip \in ClientIPs, out \in Outputs}

\* block templates handed to proofOfWork
Templates ==
    {[ZeroBlock EXCEPT !.PrevHash = h, !.PrevCID = Genesis,
                       !.BlockNumber = n, !.Transactions = ts,
                       !.Creator = <<"a">>] :
        h \in {Genesis, <<"0", "6">>}, n \in 1..2,
        ts \in [1..BatchSize -> Transactions]}

InitPow ==
    /\ CoreInit
    /\ hr = HrIdle
    /\ \E t \in Templates, d \in 0..MaxDifficulty :
          pw = [pc |-> "hash", block |-> [t EXCEPT !.Difficulty = d],
                difficulty |-> d, nonce |-> 0, hash |-> <<>>, tried |-> 0]

\* hash = generateHash(block, nonce)
PowHash ==
    /\ pw.pc = "hash"
    /\ pw' = [pw EXCEPT !.hash = generateHash(pw.block, pw.nonce),
                        !.tried = pw.tried + 1,
                        !.pc = "test"]
    /\ UNCHANGED <<coreVars, hr>>

\* if validProof(hash, difficulty) { break }; return nonce
PowBreak ==
    /\ pw.pc = "test"
    /\ validProof(pw.hash, pw.difficulty)
    /\ pw' = [pw EXCEPT !.pc = "return"]
    /\ UNCHANGED <<coreVars, hr>>

\* a search that steps over every other nonce
PowIncrementSkip ==
    /\ pw.pc = "test"
    /\ ~validProof(pw.hash, pw.difficulty)
    /\ pw.nonce < MaxNonce
    /\ pw' = [pw EXCEPT !.nonce = pw.nonce + 2, !.pc = "hash"]
    /\ UNCHANGED <<coreVars, hr>>

\* nonce++
PowIncrement ==
    /\ pw.pc = "test"
    /\ ~validProof(pw.hash, pw.difficulty)
    /\ pw.nonce < MaxNonce
    /\ pw' = [pw EXCEPT !.nonce = pw.nonce + 1, !.pc = "hash"]
    /\ UNCHANGED <<coreVars, hr>>

NextPow == PowHash \/ PowBreak \/ PowIncrement

SpecPow == InitPow /\ [][NextPow]_vars

(* ------------------- handleReceive, one check at a time ------------------- *)

\* r.Method
Methods == {"POST", "GET"}

\* request bodies: two addresses with suffixes, one address, an address
\* without suffix in either place, three addresses, a suffix holding a '|'
Bodies ==
    { <<"p", "|", "y", ",", "t", "|", "x">>,
      <<"p", "|", "y">>,
      <<"p", ",", "t", "|", "x">>,
      <<"p", "|", "y", ",", "t">>,
      <<"p", "|", "y", ",", "t", "|", "x", ",", "z">>,
      <<"p", "|", "y", "|", "z", ",", "t", "|", "x">> }

\* the call that fails while one request is handled, if any: io.ReadAll,
\* os.Getwd, downloadFromIPFS (twice), executePythonFile, removeFile (twice)
Failures ==
    {"none", "read", "getwd", "downloadPython", "downloadText", "execute",
     "removePython", "removeText"}

RECURSIVE SplitFrom(_, _, _, _, _)
SplitFrom(s, sep, i, part, parts) ==
    IF i > Len(s) THEN Append(parts, part)
    ELSE IF s[i] = sep
         THEN SplitFrom(s, sep, i + 1, <<>>, Append(parts, part))
         ELSE SplitFrom(s, sep, i + 1, Append(part, s[i]), parts)

\* strings.Split(s, sep)
Split(s, sep) == SplitFrom(s, sep, 1, <<>>, <<>>)

\* strings.Index(s, sep), counted from 1; 0 when sep does not occur
Index(s, sep) ==
    IF \E i \in DOMAIN s : s[i] = sep
    THEN CHOOSE i \in DOMAIN s : s[i] = sep /\ \A j \in 1..(i - 1) : s[j] # sep
    ELSE 0

\* strings.SplitN(s, sep, 2)
SplitN2(s, sep) ==
    IF Index(s, sep) = 0 THEN <<s>>
    ELSE <<SubSeq(s, 1, Index(s, sep) - 1),
           SubSeq(s, Index(s, sep) + 1, Len(s))>>

\* a check that rejects only when both addresses lack the suffix
HasExtensionsEither(hashes) ==
    ~(Len(SplitN2(hashes[1], "|")) # 2 /\ Len(SplitN2(hashes[2], "|")) # 2)

\* !(len(pythonParts) != 2 || len(txtParts) != 2)
HasExtensions(hashes) ==
    ~(Len(SplitN2(hashes[1], "|")) # 2 \/ Len(SplitN2(hashes[2], "|")) # 2)

InitHandle == CoreInit /\ pw = PowIdle /\ hr = HrIdle

\* a request arrives and handleReceive starts on it
HandleArrive(method, body, clientIP, result, fails) ==
    /\ ~crashed
    /\ hr.pc \in {"idle", "replied"}
    /\ Len(added) < MaxAdds
    /\ clientIP = Sender(Len(added) + 1)
    /\ hr' = [pc |-> "method", status |-> 0, method |-> method,
              body |-> body, clientIP |-> clientIP, result |-> result,
              fails |-> fails]
    /\ UNCHANGED <<coreVars, pw>>

\* one check of handleReceive: go on when it passes, http.Error and return
\* when it fails
HandleCheck(at, passes, next, status) ==
    /\ hr.pc = at
    /\ hr' = IF passes THEN [hr EXCEPT !.pc = next]
             ELSE [hr EXCEPT !.pc = "replied", !.status = status]
    /\ UNCHANGED <<coreVars, pw>>

HandleMethod == HandleCheck("method", hr.method = "POST", "read", 405)

HandleRead == HandleCheck("read", hr.fails # "read", "split", 500)

HandleSplit ==
    HandleCheck("split", Len(Split(hr.body, ",")) = 2, "extensions", 400)

HandleExtensions ==
    HandleCheck("extensions", HasExtensions(Split(hr.body, ",")), "getwd",
                400)

HandleGetwd ==
    HandleCheck("getwd", hr.fails # "getwd", "downloadPython", 500)

HandleDownloadPython ==
    HandleCheck("downloadPython", hr.fails # "downloadPython", "downloadText",
                500)

HandleDownloadText ==
    HandleCheck("downloadText", hr.fails # "downloadText", "execute",
                500)

HandleExecute ==
    HandleCheck("execute", hr.fails # "execute", "removePython",
                500)

HandleRemovePython ==
    HandleCheck("removePython", hr.fails # "removePython", "removeText",
                500)

HandleRemoveText ==
    HandleCheck("removeText", hr.fails # "removeText", "add",
                500)

\* addTransaction, go mineBlock, w.WriteHeader(http.StatusOK)
HandleAccept ==
    /\ hr.pc = "add"
    /\ AcceptRequest(hr.clientIP, hr.result)
    /\ hr' = [hr EXCEPT !.pc = "replied", !.status = 200]
    /\ UNCHANGED pw

NextHandle ==
    \/ \E method \in Methods, body \in Bodies, clientIP \in ClientIPs,
          result \in Outputs, fails \in Failures :
          HandleArrive(method, body, clientIP, result, fails)
    \/ HandleMethod
    \/ HandleRead
    \/ HandleSplit
    \/ HandleExtensions
    \/ HandleGetwd
    \/ HandleDownloadPython
    \/ HandleDownloadText
    \/ HandleExecute
    \/ HandleRemovePython
    \/ HandleRemoveText
    \/ HandleAccept

SpecHandle == InitHandle /\ [][NextHandle]_vars

(* ------------- a burst of requests, few goroutines scheduled ------------- *)

\* the requests whose mineBlock goroutines the scheduler has started so
\* far: the latest ones of the burst
Runners == {k \in Requests : k > MaxBurst - BatchSize /\ k <= MaxBurst}

\* handleReceive on a request of the burst that passes every check
HandleReceiveBurst(clientIP, result) ==
    /\ Len(added) < MaxBurst
    /\ AcceptRequest(clientIP, result)
    /\ UNCHANGED <<pw, hr>>

NextBurst ==
    \/ \E clientIP \in ClientIPs, result \in Outputs :
          HandleReceiveBurst(clientIP, result)
    \/ \E k \in Runners : MineAssemble(k)
    \/ \E k \in Runners : MineSkip(k)
    \/ \E k \in Runners : MineReturn(k)
    \/ \E k \in Runners : GoProofOfWork(k)
    \/ \E k \in Runners : GoCommit(k)
    \/ \E k \in Runners : GoShrink(k)
    \/ \E k \in Runners : GoShrinkPanic(k)
    \/ \E k \in Runners : UploadBlockToIPFS(k)

SpecBurst == Init /\ [][NextBurst]_vars

(* ------------- the burst run to its end under fair scheduling ------------- *)

\* the whole burst has been accepted and the goroutines scheduled first
\* have run to their end
RunnersDone ==
    /\ Len(added) = MaxBurst
    /\ \A r \in Runners :
          mpc[r] = "returned" /\ gpc[r] \in {"none", "done"}

\* the mineBlock goroutine of an early request, which the scheduler runs
\* after the others: lock, find no batch
LateMineSkip(k) == RunnersDone /\ MineSkip(k)

NextFair ==
    \/ NextBurst
    \/ \E k \in Requests \ Runners : LateMineSkip(k)
    \/ \E k \in Requests \ Runners : MineReturn(k)

\* the scheduler runs a goroutine as long as one can take a step
SpecFair == Init /\ [][NextFair]_vars /\ WF_vars(NextFair)

(* ------------------------------ properties ----------------------------- *)

IsPrefix(s, t) == Len(s) <= Len(t) /\ SubSeq(t, 1, Len(s)) = s

\* request k takes a batch in this step
Takes(k) == gpc[k] = "none" /\ gpc'[k] = "pow"

\* request k commits its block in this step
Commits(k) == gpc[k] = "mined" /\ gpc'[k] = "committed"

\* request k has assembled a block
Assembled(k) == gpc[k] # "none"

\* publish(bytes) -> address of the storage collaborator: an opaque
\* identifier derived from the content of the block
StorageAddress(b) == <<"Q", "m">> \o b.Hash

\* C1: the concatenation of the batches the mining attempts took, in the
\* order they took them, is a prefix of the transactions in the order they
\* were added.
C1_TakenIsPrefixOfAdded == IsPrefix(taken, added)

\* C2: taking a batch and removing it from the pool are one step: the pool
\* is always the added transactions without the taken ones, so no two
\* attempts can take overlapping batches.
C2_TakenLeavesPool ==
    transactionPool = SubSeq(added, Len(taken) + 1, Len(added))

\* C3: every commit moves the tip block number strictly up: it never
\* decreases and no two commits set it to the same value.
C3_TipNumberIncreases ==
    [][(\E k \in Requests : Commits(k)) =>
          currentBlock'.BlockNumber > currentBlock.BlockNumber]_vars

\* C4: a block is committed only if its PrevHash equals the live
\* previousBlockHash at the moment of the commit.
C4_CommitOnlyOnLiveTip ==
    [][\A k \in Requests :
          Commits(k) => block[k].PrevHash = previousBlockHash]_vars

\* C5: the tip is never a block whose publication by uploadBlockToIPFS has
\* not finished.
C5_TipIsPublished ==
    currentBlock.BlockNumber > 0 =>
        \E k \in Requests : upl[k] = "done" /\ block[k] = currentBlock

\* C6: there is no state in which the mutex is free, the tip has advanced to
\* a block B and B's transactions are still at the head of the pool.
C6_NoTipWithItsBatchInPool ==
    ~ /\ mutex = Free
      /\ currentBlock.BlockNumber > 0
      /\ IsPrefix(currentBlock.Transactions, transactionPool)

\* C7: after the commit of block B the tip storage address previousBlockCID
\* is the storage address under which B was published.
C7_TipCIDIsAddressOfTip ==
    currentBlock.BlockNumber > 0 =>
        previousBlockCID = StorageAddress(currentBlock)

\* C8: proofOfWork returns the smallest nonce whose digest starts with
\* difficulty '0' characters, which is the nonce the mining goroutine uses;
\* with difficulty 0 it returns nonce 0 after a single digest.
C8_ProofOfWorkSmallest ==
    pw.pc = "return" =>
        /\ validProof(generateHash(pw.block, pw.nonce), pw.difficulty)
        /\ \A n \in 0..(pw.nonce - 1) :
              ~validProof(generateHash(pw.block, n), pw.difficulty)
        /\ pw.nonce = proofOfWork(pw.block, pw.difficulty)
        /\ pw.difficulty = 0 => (pw.nonce = 0 /\ pw.tried = 1)

C8_Witness ==
    pw.pc = "return" /\ pw.difficulty >= 1 /\ pw.nonce > 0

\* the fields of a block the digest is required to cover, with its nonce
Digested(b) == <<b.PrevHash, b.PrevCID, b.Transactions, b.BlockNumber,
                 b.Timestamp, b.Creator, b.Difficulty, b.Nonce>>

\* C9: blocks that differ in PrevHash, PrevCID, Transactions, BlockNumber,
\* Timestamp, Creator, Difficulty or nonce are digested from different
\* inputs.
C9_DigestCoversBlock ==
    \A j, k \in Requests :
        (Assembled(j) /\ Assembled(k)
            /\ Digested(block[j]) # Digested(block[k]))
        => BlockData(block[j], block[j].Nonce)
              # BlockData(block[k], block[k].Nonce)

SkipsOrReturns(k) ==
    \/ mpc[k] = "ready" /\ mpc'[k] = "held" /\ Len(transactionPool) < 3
    \/ mpc[k] = "held" /\ mpc'[k] = "returned" /\ gpc[k] = "none"

\* C11: a mineBlock invocation that finds fewer than 3 transactions in the
\* pool changes neither the pool nor the tip, starts no proof-of-work
\* search, and publishes and broadcasts nothing.
C11_NoBatchNoEffect ==
    [][\A k \in Requests :
          SkipsOrReturns(k) =>
              UNCHANGED <<transactionPool, previousBlockHash,
                          previousBlockCID, currentBlock, gpc, block, upl,
                          bc, crashed>>]_vars

C11_Witness ==
    \E k \in Requests :
        /\ mpc[k] = "returned" /\ gpc[k] = "none"
        /\ transactionPool = added /\ Len(added) = k /\ k < 3

\* the goroutine of request k is inside proofOfWork
Searching(k) == gpc[k] = "pow"

\* the mutex is held by the mineBlock call or by the goroutine of request k
HeldFor(k) == mutex \in {<<"mine", k>>, <<"go", k>>}

\* C12: in every state where a mining goroutine is inside proofOfWork, the
\* mutex is not held on behalf of that mining attempt.
C12_SearchNeverUnderLock ==
    \A k \in Requests : Searching(k) => ~HeldFor(k)

\* C12, amended: the goroutine inside proofOfWork never holds the mutex
\* itself; the mutex is held for its attempt only by the mineBlock call
\* that started it and has not returned yet, and once that call has
\* returned the mutex is not held for the attempt while the search runs.
C12_SearchHoldsNoLock ==
    \A k \in Requests :
        Searching(k) =>
            /\ mutex # <<"go", k>>
            /\ mutex = <<"mine", k>> <=> mpc[k] = "held"

\* a search is running while another request has taken the mutex
C12_Witness ==
    \E k, j \in Requests :
        /\ k # j
        /\ Searching(k) /\ mpc[k] = "returned"
        /\ mutex = <<"mine", j>>

\* no other attempt has moved the tip since request k assembled its block
Uninterfered(k) ==
    /\ previousBlockHash = block[k].PrevHash
    /\ currentBlock.BlockNumber + 1 = block[k].BlockNumber

\* C13: a mining attempt that runs from tip (h, n) without interference
\* commits a block whose hash meets the difficulty and leaves the tip at
\* (hash of that block, n + 1); from the genesis state the block has
\* BlockNumber 1 and PrevHash "-1", and the tip number becomes 1.
C13_UninterferedAttemptAdvancesTip ==
    [][\A k \in Requests :
          Commits(k) /\ Uninterfered(k) =>
              /\ previousBlockHash' = block[k].Hash
              /\ validProof(block[k].Hash, Difficulty)
              /\ currentBlock'.BlockNumber = currentBlock.BlockNumber + 1
              /\ currentBlock'.PrevHash = previousBlockHash
              /\ (previousBlockHash = Genesis /\ currentBlock.BlockNumber = 0)
                     => /\ currentBlock'.BlockNumber = 1
                        /\ currentBlock'.PrevHash = <<"-", "1">>]_vars

\* the only attempt so far has committed the first block
C13_Witness ==
    /\ Cardinality({k \in Requests : Assembled(k)}) = 1
    /\ currentBlock.BlockNumber = 1
    /\ currentBlock.PrevHash = Genesis
    /\ previousBlockHash = currentBlock.Hash
    /\ Len(currentBlock.Transactions) = 3

\* a step writes the shared state of the chain
WritesShared ==
    <<transactionPool, previousBlockHash, previousBlockCID, currentBlock>>'
        # <<transactionPool, previousBlockHash, previousBlockCID,
            currentBlock>>

\* C14: every write to transactionPool, previousBlockHash, previousBlockCID
\* and currentBlock, and every read of them that assembles a block, is done
\* by a step that acquires the mutex: no one else holds it at that moment.
C14_SharedStateUnderMutex ==
    [][/\ WritesShared => mutex = Free
       /\ \A k \in Requests :
             Takes(k) => mutex = Free /\ mutex' = <<"mine", k>>]_vars

\* all four shared variables have been written and a block is being
\* assembled from them
C14_Witness ==
    /\ transactionPool # <<>>
    /\ currentBlock.BlockNumber > 0
    /\ previousBlockHash # Genesis
    /\ \E k \in Requests : mutex = <<"mine", k>> /\ gpc[k] = "pow"

\* the request handleReceive is working on passes every check
Acceptable(req) ==
    /\ req.method = "POST"
    /\ req.fails = "none"
    /\ Cardinality({i \in DOMAIN req.body : req.body[i] = ","}) = 1
    /\ \E c \in DOMAIN req.body :
          /\ req.body[c] = ","
          /\ \E i \in 1..(c - 1) : req.body[i] = "|"
          /\ \E i \in (c + 1)..Len(req.body) : req.body[i] = "|"

\* C15: a request that handleReceive rejects is answered with an error and
\* leaves the pool, the tip and the mining goroutines untouched; the step
\* that adds the transaction and starts mineBlock is taken only for a
\* request that passed every check.
C15_RejectedRequestLeavesCore ==
    [][/\ (hr'.pc = "replied" /\ hr'.status # 200)
              => UNCHANGED coreVars /\ ~Acceptable(hr)
       /\ coreVars' # coreVars
              => hr.pc = "add" /\ hr'.status = 200 /\ Acceptable(hr)]_vars

\* after an accepted request, one is rejected at the last check
C15_Witness ==
    /\ hr.pc = "replied" /\ hr.status = 500
    /\ hr.fails = "removeText"
    /\ Acceptable([hr EXCEPT !.fails = "none"])
    /\ Len(added) = 1 /\ transactionPool = added
    /\ mpc[2] = "idle"

\* the block carries the nonce proofOfWork returns for it and the digest
\* at that nonce, which starts with Difficulty '0' characters
Mined(b) ==
    /\ b.Hash # <<>>
    /\ b.Hash = generateHash(b, b.Nonce)
    /\ b.Difficulty = Difficulty
    /\ Len(b.Hash) >= Difficulty
    /\ \A i \in 1..Difficulty : b.Hash[i] = "0"
    /\ b.Nonce = proofOfWork(b, b.Difficulty)

\* C16: every block that becomes the tip carries the nonce proofOfWork
\* returned for it and the digest generateHash gives at that nonce, and
\* this hash starts with at least Difficulty '0' characters; the tip is
\* never set to a block whose Hash is unset.
C16_TipIsMined ==
    [][currentBlock' # currentBlock =>
          /\ \E k \in Requests : Commits(k) /\ currentBlock' = block[k]
          /\ \E b \in {currentBlock'} : Mined(b)
          /\ previousBlockHash' = currentBlock'.Hash]_vars

\* the tip is a block whose search had to go past nonce 0
C16_Witness ==
    /\ currentBlock.BlockNumber > 0
    /\ currentBlock.Nonce > 0
    /\ ~validProof(generateHash(currentBlock, 0), Difficulty)

\* the order of the steps of one mining attempt
StepOrder ==
    { <<"none", "pow">>, <<"pow", "mined">>, <<"mined", "committed">>,
      <<"committed", "done">>, <<"committed", "panic">> }

\* C17: a mining attempt takes its steps in the order assemble, search,
\* hand the block to uploadBlockToIPFS, commit, announce: broadcastBlock is
\* called for a block only in the step that has made this block the tip,
\* after the search and the hand-over to uploadBlockToIPFS, and never for a
\* block that was not committed.
C17_AnnounceAfterCommit ==
    [][\A k \in Requests :
          /\ gpc'[k] # gpc[k] => <<gpc[k], gpc'[k]>> \in StepOrder
          /\ upl'[k] # upl[k] /\ upl[k] = "none"
                 => gpc[k] = "pow" /\ gpc'[k] = "mined"
          /\ bc'[k] # bc[k]
                 => /\ Commits(k)
                    /\ upl[k] # "none"
                    /\ block[k].Hash # <<>>
                    /\ currentBlock' = block[k]
                    /\ previousBlockHash' = block[k].Hash]_vars

\* a block has been announced and is the tip
C17_Witness ==
    \E k \in Requests :
        /\ bc[k] = "called"
        /\ currentBlock = block[k]
        /\ gpc[k] = "done"

\* request k has committed its block
Committed(k) == gpc[k] \in {"committed", "done", "panic"}

\* the tip hash and the tip number belong to the same committed block
TipIsOneBlock ==
    IF currentBlock.BlockNumber = 0
    THEN previousBlockHash = Genesis
    ELSE /\ previousBlockHash = currentBlock.Hash
         /\ \E j \in Requests : Committed(j) /\ block[j] = currentBlock

\* C18: the BlockNumber of every assembled block is 1 when its PrevHash is
\* the genesis hash, and otherwise 1 more than the BlockNumber of the
\* committed block whose Hash is its PrevHash; the tip hash and the tip
\* number always belong to the same committed block.  (The predecessor is
\* a committed block with that Hash: the shortened digest lets two blocks
\* of different numbers share a Hash, which sha256 does not.)
C18_NumberFollowsPredecessor ==
    /\ TipIsOneBlock
    /\ \A k \in Requests :
          Assembled(k) =>
              IF block[k].PrevHash = Genesis
              THEN block[k].BlockNumber = 1
              ELSE \E j \in Requests :
                       /\ Committed(j)
                       /\ block[j].Hash = block[k].PrevHash
                       /\ block[k].BlockNumber = block[j].BlockNumber + 1

\* a block has been assembled on top of a committed block
C18_Witness ==
    \E k, j \in Requests :
        /\ Assembled(k) /\ Committed(j)
        /\ block[k].PrevHash = block[j].Hash
        /\ block[k].BlockNumber = 2

\* C19: whenever a mining goroutine is about to execute its pool-shrink
\* step (it has committed and the mutex is free for it), the pool holds at
\* least 3 transactions, so transactionPool[3:] does not panic.
C19_ShrinkFindsBatch ==
    /\ ~crashed
    /\ \A k \in Requests :
          gpc[k] = "committed" /\ mutex = Free
              => Len(transactionPool) >= 3

\* request k removes the first three transactions of the pool in this step
Shrinks(k) == gpc[k] = "committed" /\ gpc'[k] = "done"

\* C20: the transactions a mining goroutine removes from the pool in its
\* shrink step are the 3 transactions of the block this goroutine has just
\* committed.
C20_ShrinkRemovesOwnBatch ==
    [][\A k \in Requests :
          Shrinks(k) =>
              /\ Len(transactionPool) >= 3
              /\ SubSeq(transactionPool, 1, 3) = block[k].Transactions]_vars

\* the j-th batch of three in the order the transactions were added
Batch(j) == SubSeq(added, 3 * j - 2, 3 * j)

\* the j-th batch is the content of a block some goroutine has committed
BatchCommitted(j) ==
    /\ Len(added) >= 3 * j
    /\ \E k \in Requests : Committed(k) /\ block[k].Transactions = Batch(j)

\* every goroutine that can still run finds no batch: the late mineBlock
\* calls of SpecFair leave out no step of the program
LateFindNoBatch == RunnersDone => Len(transactionPool) < 3

\* every request of the burst has been accepted and every goroutine has
\* run to its end: no step of the program is left to take
AllRun ==
    /\ Len(added) = MaxBurst
    /\ \A k \in Requests :
          k <= MaxBurst => mpc[k] = "returned" /\ gpc[k] \in {"none", "done"}

\* the first batch is in a committed block and out of the pool once the
\* program has come to rest, by running to its end or by a panic
FirstBatchMined ==
    (AllRun \/ crashed) => BatchCommitted(1) /\ removed >= 3

\* C21: under fair scheduling, with every search terminating, the first 3
\* transactions of the pool are eventually contained in a committed block
\* and removed from the pool; and when the number of added transactions is
\* a multiple of 3, every added transaction is eventually contained in a
\* committed block.  Stated on the states in which the fair run has come to
\* rest: what is not committed there never will be.
C21_EveryBatchCommittedAtRest ==
    (AllRun /\ MaxBurst % 3 = 0) =>
        /\ BatchCommitted(1) /\ removed >= 3
        /\ \A j \in 1..(MaxBurst \div 3) : BatchCommitted(j)

====
